---------------------------- MODULE Spec2Model ----------------------------
(***************************************************************************)
(* Model of the "wiring" subsystem of ocomone-selene:                      *)
(*   - the ordered setter registry (wiring.py, register_setter & co.),     *)
(*   - the strategy registry and locator conversion,                       *)
(*   - the field-to-property compiler with its per-instance cache,         *)
(*   - the @wired binding driver (WiredDecorator.__call__._wired).         *)
(* Python names are kept; a leading underscore is dropped where the        *)
(* Python name has one (_is_subclass -> is_subclass).                      *)
(***************************************************************************)
EXTENDS Integers, Sequences, FiniteSets, TLC

VARIABLES
    WIRED_CLASS_ORDER,    \* wiring.py:21  list of registered types, most precise first
    WIRED_CLASS_SETTERS,  \* wiring.py:19  dict type -> inner setter
    STRATEGIES,           \* wiring.py:180 the global strategy dict
    classes,              \* per wired class: __wired__, strategies, installed attributes
    insts,                \* the instances created through the @wired wrapper
    outcome               \* what the last call did: error raised, value returned, calls made

vars == <<WIRED_CLASS_ORDER, WIRED_CLASS_SETTERS, STRATEGIES, classes, insts, outcome>>

\* Python's None, as a record so that it compares with every other value of the model.
None == [kind |-> "None"]

(***************************************************************************)
(* The type hierarchy: selene's two element types, selenium's Select, the   *)
(* wrappers of elements.py and one user wrapper with two bases.            *)
(***************************************************************************)
Types ==
    {"SeleneElement", "SeleneCollection", "SeleniumSelect", "SeleneElementWrapper",
     "ReadonlyElement", "Button", "TextInput", "Checkbox", "Select", "ReadonlyInput"}

\* The direct bases of a type, among Types.
Bases(t) ==
    CASE t = "SeleneElementWrapper" -> {"SeleneElement"}
      [] t = "ReadonlyElement"      -> {"SeleneElementWrapper"}
      [] t = "Button"               -> {"ReadonlyElement"}
      [] t = "TextInput"            -> {"SeleneElementWrapper"}
      [] t = "Checkbox"             -> {"SeleneElementWrapper"}
      [] t = "Select"               -> {"SeleniumSelect"}
      [] t = "ReadonlyInput"        -> {"ReadonlyElement", "TextInput"}
      [] OTHER                      -> {}

RECURSIVE Mro(_)
\* cls.__mro__ as a set: the type and all its ancestors.
Mro(t) == {t} \cup UNION {Mro(b) : b \in Bases(t)}

\* The subclass relation over Types, computed once.
SubclassPairs == {p \in Types \X Types : p[2] \in Mro(p[1])}

\* issubclass(cls, typ) / typ in cls.__mro__
is_subclass(cls, typ) == <<cls, typ>> \in SubclassPairs

\* _is_subclass(cls, tuple(types))
is_subclass_any(cls, types) == \E typ \in types : is_subclass(cls, typ)

\* The types that answer to collections.abc.Iterable.
IsIterable(t) == is_subclass(t, "SeleneCollection")

Range(s) == {s[i] : i \in DOMAIN s}

(***************************************************************************)
(* Strategies and locators.                                                *)
(***************************************************************************)
\* The root elements an instance may be built on; None is "no root": the browser.
Roots == {[kind |-> "root", id |-> "form1"]}

\* A strategy function; by_label is bound to the root it searches from.
Fn(name) == [kind |-> "fn", fn |-> name, root |-> None]

by_label(root) == [kind |-> "fn", fn |-> "by_label", root |-> root]

\* _STRATEGIES as the module sets it up.
DefaultStrategies ==
    [n \in {"id", "name", "label", "text", "partial", "link", "css"} |->
        CASE n = "id"      -> Fn("by_id")
          [] n = "name"    -> Fn("by_name")
          [] n = "label"   -> None
          [] n = "text"    -> Fn("by_text")
          [] n = "partial" -> Fn("by_partial_text")
          [] n = "link"    -> Fn("by_link_text")
          [] n = "css"     -> Fn("by_css")]

\* dict.update({name: value})
DictUpdate(d, name, value) ==
    [n \in DOMAIN d \cup {name} |-> IF n = name THEN value ELSE d[n]]

\* A locator pair (by, selector); form tells how the selector text was built
\* from the argument: as is, or as an XPath expression around the text.
Locator(by, sel, form) == [kind |-> "locator", by |-> by, sel |-> sel, form |-> form]

Raised(err) == [kind |-> "raised", err |-> err]

\* The page: the @for of the label with the given text, searched from root
\* (None: the label has no @for).
LabelTarget(root, text) ==
    IF root = None THEN [kind |-> "str", s |-> "q0"]
    ELSE IF root.id = "form1" THEN [kind |-> "str", s |-> "q1"]
    ELSE None

\* A strategy that tags the locator with its own name and passes the text on.
CallStrategy_Echo(strategy, text) ==
    IF strategy.kind # "fn" THEN Raised("TypeError")
    ELSE Locator(strategy.fn, text, "raw")

\* Calling a strategy with the selector text: a locator or the error raised.
CallStrategy(strategy, text) ==
    IF strategy.kind # "fn" THEN Raised("TypeError")   \* not callable
    ELSE CASE strategy.fn = "by_id"           -> Locator("id", text, "raw")
           [] strategy.fn = "by_name"         -> Locator("name", text, "raw")
           [] strategy.fn = "by_css"          -> Locator("css selector", text, "raw")
           [] strategy.fn = "by_link_text"    -> Locator("link text", text, "raw")
           [] strategy.fn = "by_text"         -> Locator("xpath", text, "text_equals")
           [] strategy.fn = "by_partial_text" -> Locator("xpath", text, "text_contains")
           [] strategy.fn = "by_xpath"        -> Locator("xpath", text, "raw")
           [] strategy.fn = "by_label"        ->
                IF LabelTarget(strategy.root, text) = None THEN Raised("TypeError")
                ELSE Locator("id", LabelTarget(strategy.root, text).s, "raw")

\* A lookup that falls back to the css strategy for an undefined name.
StrategyDict_getitem_Fallback(table, item) ==
    IF item \in DOMAIN table /\ table[item] # None THEN table[item] ELSE table["css"]

\* _StrategyDict.__getitem__: the strategy, or None for __impossible.
StrategyDict_getitem(table, item) ==
    IF item \notin DOMAIN table THEN None
    ELSE IF table[item] = None THEN None
    ELSE table[item]

\* The _convert closure of _convert_locator(strategy, locator), called with an
\* object whose strategies attribute is table (None: no such attribute).
convert_locator(table, strategy, locator) ==
    IF table = None THEN Raised("AttributeError")
    ELSE IF StrategyDict_getitem(table, strategy) = None THEN Raised("NotImplementedError")
    ELSE CallStrategy(StrategyDict_getitem(table, strategy), locator)

(***************************************************************************)
(* The setter registry.                                                    *)
(***************************************************************************)
\* The functions register_setter is called with in the repository.
Methods == {"set", "select_by_value"}

\* _is_sorted: no entry is a subclass of the entry right before it.
is_sorted(cls_list) ==
    \A i \in 1..(Len(cls_list) - 1) : ~is_subclass(cls_list[i + 1], cls_list[i])

Swap(s, i) == [s EXCEPT ![i] = s[i + 1], ![i + 1] = s[i]]

RECURSIVE BubblePass(_, _)
\* One run of the for loop of __sort_classes, from index i on.
BubblePass(wc, i) ==
    IF i > Len(wc) - 1 THEN wc
    ELSE IF is_subclass(wc[i + 1], wc[i]) THEN BubblePass(Swap(wc, i), i + 1)
    ELSE BubblePass(wc, i + 1)

RECURSIVE sort_classes(_)
\* __sort_classes: bubble passes until _is_sorted.
sort_classes(wc) == IF is_sorted(wc) THEN wc ELSE sort_classes(BubblePass(wc, 1))

\* The index of the first entry cls is a subclass of (0: none).
FirstSuper(wco, cls) ==
    IF \E i \in DOMAIN wco : is_subclass(cls, wco[i])
    THEN CHOOSE i \in DOMAIN wco :
            /\ is_subclass(cls, wco[i])
            /\ \A j \in 1..(i - 1) : ~is_subclass(cls, wco[j])
    ELSE 0

InsertAt(s, i, e) == SubSeq(s, 1, i - 1) \o <<e>> \o SubSeq(s, i, Len(s))

\* A registration that always appends.
InsertClassAtBack(wco, cls) == Append(wco, cls)

\* Where _register_class puts a new class: before the first entry it is a
\* subclass of, or at the back.
InsertClass(wco, cls) ==
    IF ~is_subclass_any(cls, Range(wco)) THEN Append(wco, cls)
    ELSE InsertAt(wco, FirstSuper(wco, cls), cls)

\* A registration in which the last setter given for a type wins.
register_class_Overwrite(order, setters, cls, setter) ==
    LET wco == sort_classes(order) IN
    [order   |-> IF cls \in Range(wco) THEN wco ELSE InsertClass(wco, cls),
     setters |-> [t \in DOMAIN setters \cup {cls} |->
                     IF t = cls THEN setter ELSE setters[t]]]

\* _register_class: the registry (order, setters) after the call.
register_class(order, setters, cls, setter) ==
    LET wco == sort_classes(order) IN
    IF cls \in Range(wco) THEN [order |-> wco, setters |-> setters]
    ELSE [order   |-> InsertClass(wco, cls),
          setters |-> [t \in DOMAIN setters \cup {cls} |->
                          IF t = cls THEN setter ELSE setters[t]]]

\* The closure _real_setter of register_setter(cls, method).
real_setter(cls, method) == [cls |-> cls, method |-> method]

\* The registry after register_setter(cls, method).
RegisterResult(cls, method) ==
    register_class(WIRED_CLASS_ORDER, WIRED_CLASS_SETTERS, cls, real_setter(cls, method))

(***************************************************************************)
(* The classes given to @wired: their declarations and locator files.      *)
(*   Page    overrides element (not elements) and declares four fields;    *)
(*   Broken  declares a field its locator file has no line for.            *)
(***************************************************************************)
WiredClasses == {"Page", "Broken"}

\* The class defined with the comment-parsing metaclass (a CommentParser).
CommentClasses == {"Commented"}

Classes == WiredClasses \cup CommentClasses

\* The wired base class, or "Wireable".
ClassBase(c) == "Wireable"

Field(name, cls) == [name |-> name, cls |-> cls]

\* wrapped.__annotations__, in declaration order (all declared without a value).
Annotations(c) ==
    CASE c = "Page"    -> <<Field("input", "TextInput"), Field("submit", "Button"),
                            Field("items", "SeleneCollection"),
                            Field("choice", "SeleniumSelect")>>
      [] c = "Broken"  -> <<Field("title", "ReadonlyElement"), Field("extra", "Button")>>
      [] c = "Commented" -> <<Field("g_search_button", "SeleneElement")>>

Line(strategy, selector) == [strategy |-> strategy, selector |-> selector]

\* A line of text is a sequence of tokens: the colon and words, a word being a
\* longest run of characters without a colon (so no two words are adjacent).
Colon == ":"

WellFormed(text) ==
    \A k \in 1..(Len(text) - 1) : text[k] # Colon => text[k + 1] = Colon

\* The text between two colons: a word, or "" when there is none.
Word(seg) == IF seg = <<>> THEN "" ELSE seg[1]

FirstColon(text) ==
    IF \E k \in DOMAIN text : text[k] = Colon
    THEN CHOOSE k \in DOMAIN text : text[k] = Colon /\ \A j \in 1..(k - 1) : text[j] # Colon
    ELSE 0

RECURSIVE Split(_)
\* text.split(":"): the texts between the colons, all of them.
Split(text) ==
    IF FirstColon(text) = 0 THEN <<Word(text)>>
    ELSE <<Word(SubSeq(text, 1, FirstColon(text) - 1))>>
            \o Split(SubSeq(text, FirstColon(text) + 1, Len(text)))

\* A row of csv.reader(input_file, delimiter=":"); a blank line is an empty row.
csv_reader(text) == IF text = <<>> THEN <<>> ELSE Split(text)

\* _convert_locator(*args): the closure keeps (strategy, locator); any other
\* number of arguments is a TypeError of the call.
convert_locator_args(args) ==
    IF Len(args) = 2 THEN Line(args[1], args[2]) ELSE Raised("TypeError")

Tail1(s) == SubSeq(s, 2, Len(s))

RECURSIVE ParseRows(_, _, _)
\* The dict comprehension of __parse_csv from row k on: a later row of a field
\* replaces an earlier one; the first row that cannot be converted raises.
ParseRows(rows, k, acc) ==
    IF k > Len(rows) THEN [kind |-> "locators", of |-> acc]
    ELSE LET mapping == csv_reader(rows[k]) IN
         IF mapping = <<>> THEN Raised("IndexError")
         ELSE LET line == convert_locator_args(Tail1(mapping)) IN
              IF "kind" \in DOMAIN line THEN line
              ELSE ParseRows(rows, k + 1,
                      [f \in DOMAIN acc \cup {mapping[1]} |->
                          IF f = mapping[1] THEN line ELSE acc[f]])

\* WiredDecorator.__parse_csv(locator_file) on the lines of the file.
parse_csv(rows) == ParseRows(rows, 1, << >>)

\* The locator file of the class: lines field:strategy:selector.
CsvFile(c) ==
    CASE c = "Page"   -> << <<"input", Colon, "label", Colon, "Query">>,
                            <<"submit", Colon, "css", Colon, "button">>,
                            <<"items", Colon, "xpath", Colon, "//li">>,
                            <<"choice", Colon, "name", Colon, "choice">> >>
      [] c = "Broken" -> << <<"title", Colon, "id", Colon, "title">> >>

LocatorsOf == [c \in WiredClasses |-> parse_csv(CsvFile(c)).of]

\* The locators of the class, as __parse_csv reads them from its file.
Locators(c) == LocatorsOf[c]

\* The lookup methods the class overrides; Wireable's own raise NotImplementedError.
Implements(c) == IF c \in CommentClasses THEN {"element", "elements"} ELSE {"element"}

OwnFieldsOf == [c \in Classes |-> {Annotations(c)[k].name : k \in DOMAIN Annotations(c)}]

OwnFields(c) == OwnFieldsOf[c]

RECURSIVE MroFrom(_)
MroFrom(c) == IF c \in Classes THEN <<c>> \o MroFrom(ClassBase(c)) ELSE <<>>

ClassMroOf == [c \in Classes |-> MroFrom(c)]

\* The wired classes of c.__mro__, c first.
ClassMro(c) == ClassMroOf[c]

AllFieldsOf == [c \in Classes |-> UNION {OwnFields(ClassMro(c)[k]) : k \in DOMAIN ClassMro(c)}]

AllFields(c) == AllFieldsOf[c]

Unset == [kind |-> "unset"]

\* A class as its definition leaves it: nothing installed.
FreshClass(c) == [wired |-> "", strategies |-> None, attrs |-> [f \in OwnFields(c) |-> Unset]]

\* The classes of the mro of c whose own __dict__ holds attribute f.
Holders(cs, c, f) ==
    {k \in DOMAIN ClassMro(c) :
        LET cl == ClassMro(c)[k] IN f \in OwnFields(cl) /\ cs[cl].attrs[f] # Unset}

Min(S) == CHOOSE x \in S : \A y \in S : x <= y

\* getattr(c, f) for a declared field: the first class of the mro that holds it.
ClassGetAttr(cs, c, f) ==
    IF Holders(cs, c, f) = {} THEN Unset
    ELSE cs[ClassMro(c)[Min(Holders(cs, c, f))]].attrs[f]

\* The class of the mro whose strategies attribute c (and its instances) sees.
StrategiesOwner(cs, c) ==
    LET has == {k \in DOMAIN ClassMro(c) : cs[ClassMro(c)[k]].strategies # None}
    IN  IF has = {} THEN "" ELSE ClassMro(c)[Min(has)]

\* A class table that is the global registry itself, not a copy of it.
ClassStrategies_Alias(cs, c) ==
    IF StrategiesOwner(cs, c) = "" THEN None ELSE STRATEGIES

ClassStrategies(cs, c) ==
    IF StrategiesOwner(cs, c) = "" THEN None ELSE cs[StrategiesOwner(cs, c)].strategies

\* getattr(c, "__wired__", <missing>)
ClassWired(cs, c) ==
    LET has == {k \in DOMAIN ClassMro(c) : cs[ClassMro(c)[k]].wired # ""}
    IN  IF has = {} THEN "" ELSE cs[ClassMro(c)[Min(has)]].wired

(***************************************************************************)
(* The field-to-property compiler.                                         *)
(***************************************************************************)
\* A scan of the registry that keeps the last match instead of the first.
SetterClassLast(order, field_cls) ==
    LET hits == {k \in DOMAIN order : is_subclass(field_cls, order[k])}
    IN  IF hits = {} THEN "" ELSE order[CHOOSE k \in hits : \A h \in hits : h <= k]

\* The entry _to_property takes the setter from: the first registered type
\* field_cls is a subclass of ("": none).
SetterClass(order, field_cls) ==
    IF FirstSuper(order, field_cls) = 0 THEN "" ELSE order[FirstSuper(order, field_cls)]

\* _to_property(field_name, field_cls, getter): a property whose getter is the
\* cached, wired getter of the locator line and whose setter looks up
\* __WIRED_CLASS_SETTERS[setter_cls]; None when no registered type matches.
to_property(order, field_name, field_cls, line) ==
    IF SetterClass(order, field_cls) = "" THEN None
    ELSE [kind |-> "property", field |-> field_name, field_cls |-> field_cls,
          line |-> line, setter_cls |-> SetterClass(order, field_cls)]

\* A getter that asks for a single element whatever the declared type.
LookupMethod_Element(field_cls) == "element"

\* The method of the owning instance _wired_getter calls.
LookupMethod(field_cls) == IF IsIterable(field_cls) THEN "elements" ELSE "element"

\* What element()/elements() of the automation library return.
RawElement(method, loc, owner, serial) ==
    [kind |-> "element", cls |-> IF method = "elements" THEN "SeleneCollection" ELSE "SeleneElement",
     loc |-> loc, owner |-> owner, serial |-> serial]

\* __convert_entity: wrap unless already an instance of cls (every wrapper of
\* Types takes the element as its lone argument).
convert_entity(element, cls) ==
    IF is_subclass(element.cls, cls) THEN element ELSE [element EXCEPT !.cls = cls]

\* The call made: the operation, the instance it was made on (0: none), the
\* field, class or strategy name it was made for and its argument.
Call(op, inst, name, arg) == [op |-> op, inst |-> inst, name |-> name, arg |-> arg]

\* The outcome of a call that returned nothing, raised nothing and called nothing.
Done(call) == [call |-> call, err |-> "ok", value |-> None, lookup |-> None, set |-> None]

\* A function passed as an argument of a call.
Method(name) == [kind |-> "method", name |-> name]

register_setter(cls, method) ==
    /\ WIRED_CLASS_ORDER' = RegisterResult(cls, method).order
    /\ WIRED_CLASS_SETTERS' = RegisterResult(cls, method).setters
    /\ outcome' = Done(Call("register_setter", 0, cls, Method(method)))
    /\ UNCHANGED <<STRATEGIES, classes, insts>>

\* register_without_setter(cls): register_setter(cls, _read_only)
register_without_setter(cls) ==
    /\ WIRED_CLASS_ORDER' = RegisterResult(cls, "_read_only").order
    /\ WIRED_CLASS_SETTERS' = RegisterResult(cls, "_read_only").setters
    /\ outcome' = Done(Call("register_without_setter", 0, cls, None))
    /\ UNCHANGED <<STRATEGIES, classes, insts>>

(***************************************************************************)
(* The binding driver: WiredDecorator.__call__._wired.                     *)
(***************************************************************************)
MaxInstances == 1

MaxPages == 2

\* The classes of the model name types of elements.py: their modules import it.
ElementsImported == "ReadonlyElement" \in Range(WIRED_CLASS_ORDER)

MaxLookups == 2

RECURSIVE WireAttrs(_, _, _, _)
\* The for loop of _wire_cls from the k-th annotation on: the classes after
\* it and the error that ended it.
WireAttrs(cs, c, k, order) ==
    IF k > Len(Annotations(c)) THEN [cs |-> cs, err |-> "ok"]
    ELSE LET attr == Annotations(c)[k].name
             attr_cls == Annotations(c)[k].cls
         IN  IF ClassGetAttr(cs, c, attr) # Unset          \* hasattr(wrapped, attr)
             THEN WireAttrs(cs, c, k + 1, order)
             ELSE IF attr \notin DOMAIN Locators(c)
             THEN [cs |-> cs, err |-> "KeyError"]
             ELSE WireAttrs(
                    [cs EXCEPT ![c].attrs[attr] =
                        to_property(order, attr, attr_cls, Locators(c)[attr])],
                    c, k + 1, order)

\* hasattr(wrapped, "__wired__") and wrapped.__wired__ == wrapped.__name__
AlreadyWired(cs, c) == ClassWired(cs, c) = c

\* A binding that marks the class as bound whatever the loop raised.
wire_cls_IgnoreError(cs, c, order, strategies) ==
    IF AlreadyWired(cs, c) THEN [cs |-> cs, err |-> "ok"]
    ELSE LET res == WireAttrs([cs EXCEPT ![c].strategies = strategies], c, 1, order)
         IN  [cs |-> [res.cs EXCEPT ![c].wired = c], err |-> "ok"]

\* _wire_cls() for class c.
wire_cls(cs, c, order, strategies) ==
    IF AlreadyWired(cs, c) THEN [cs |-> cs, err |-> "ok"]
    ELSE LET res == WireAttrs([cs EXCEPT ![c].strategies = strategies], c, 1, order)
         IN  IF res.err = "ok"
             THEN [cs |-> [res.cs EXCEPT ![c].wired = c], err |-> "ok"]
             ELSE res

NewInstance(c, root) ==
    [cls |-> c, root |-> root,
     cache   |-> [f \in AllFields(c) |-> None],
     lookups |-> [f \in AllFields(c) |-> 0]]

\* self.strategies.update({name: strategy}) on an instance of class c.
UpdateStrategies(cs, c, name, strategy) ==
    [cs EXCEPT ![StrategiesOwner(cs, c)].strategies = DictUpdate(@, name, strategy)]

\* One call of the wrapper: bind the class, build the instance on root, register
\* its label strategy. At most cap instances are built.
wired_call(c, root, cap) ==
    LET w == wire_cls(classes, c, WIRED_CLASS_ORDER, STRATEGIES)
        call == Call("wired", 0, c, root)
    IN
    /\ ElementsImported
    /\ w.err # "ok" \/ Len(insts) < cap
    /\ IF w.err # "ok"
       THEN /\ classes' = w.cs
            /\ insts' = insts
            /\ outcome' = [Done(call) EXCEPT !.err = w.err]
       ELSE /\ classes' = UpdateStrategies(w.cs, c, "label", by_label(root))
            /\ insts' = Append(insts, NewInstance(c, root))
            /\ outcome' = [Done(call) EXCEPT
                              !.value = [kind |-> "instance", id |-> Len(insts) + 1]]
    /\ UNCHANGED <<WIRED_CLASS_ORDER, WIRED_CLASS_SETTERS, STRATEGIES>>

wired(c, root) == wired_call(c, root, MaxInstances)

\* Wireable.register_strategy(self, name, strategy)
Wireable_register_strategy(i, name, strategy) ==
    /\ classes' = UpdateStrategies(classes, insts[i].cls, name, strategy)
    /\ outcome' = Done(Call("Wireable.register_strategy", i, name, strategy))
    /\ UNCHANGED <<WIRED_CLASS_ORDER, WIRED_CLASS_SETTERS, STRATEGIES, insts>>

\* The characters of the strategy names registered in the model.
Chars(name) ==
    CASE name = "id"    -> <<"i", "d">>
      [] name = "xpath" -> <<"x", "p", "a", "t", "h">>

\* dict.update(iterable) with the elements in the given order: every element
\* must be a sequence of two items, key and value; the entries before the
\* first element that is not are stored, and that element raises.
RECURSIVE UpdateFromSeq(_, _, _)
UpdateFromSeq(d, elements, k) ==
    IF k > Len(elements) THEN [dict |-> d, err |-> "ok"]
    ELSE LET e == elements[k] IN
         IF e.kind # "str" THEN [dict |-> d, err |-> "TypeError"]      \* not a sequence
         ELSE IF Len(Chars(e.s)) # 2 THEN [dict |-> d, err |-> "ValueError"]
         ELSE UpdateFromSeq(DictUpdate(d, Chars(e.s)[1], [kind |-> "str", s |-> Chars(e.s)[2]]),
                            elements, k + 1)

\* The orders in which the set {name, strategy} is iterated.
SetOrders(name, strategy) ==
    {<<[kind |-> "str", s |-> name], strategy>>, <<strategy, [kind |-> "str", s |-> name]>>}

\* register_strategy(name, strategy) of the module:
\* _STRATEGIES.update({name, strategy}), the argument being a set.
register_strategy(name, strategy) ==
    \E elements \in SetOrders(name, strategy) :
        LET res == UpdateFromSeq(STRATEGIES, elements, 1) IN
        /\ STRATEGIES' = res.dict
        /\ outcome' = [Done(Call("register_strategy", 0, name, strategy)) EXCEPT !.err = res.err]
        /\ UNCHANGED <<WIRED_CLASS_ORDER, WIRED_CLASS_SETTERS, classes, insts>>

(***************************************************************************)
(* Reading and assigning a field of an instance.                           *)
(***************************************************************************)
Lookup(method, loc) == [kind |-> "lookup", method |-> method, loc |-> loc]

Got(err, value, lookup, inst) == [err |-> err, value |-> value, lookup |-> lookup, inst |-> inst]

\* A getter that never stores its result.
real_getter_NoCache(cs, inst, i, prop) ==
    LET f == prop.field
        loc == convert_locator(ClassStrategies(cs, inst.cls),
                               prop.line.strategy, prop.line.selector)
        method == LookupMethod(prop.field_cls)
        called == [inst EXCEPT !.lookups[f] = @ + 1]
    IN  IF loc.kind = "raised" THEN Got(loc.err, None, None, inst)
        ELSE IF method \notin Implements(inst.cls)
        THEN Got("NotImplementedError", None, Lookup(method, loc), called)
        ELSE Got("ok", convert_entity(RawElement(method, loc, i, called.lookups[f]),
                                      prop.field_cls),
                 Lookup(method, loc), called)

\* The property getter of prop on instance i: __real_getter of _cached_getter
\* around __getter of _wired_getter.
real_getter(cs, inst, i, prop) ==
    LET f == prop.field IN
    IF inst.cache[f] # None THEN Got("ok", inst.cache[f], None, inst)
    ELSE LET loc == convert_locator(ClassStrategies(cs, inst.cls),
                                    prop.line.strategy, prop.line.selector)
             method == LookupMethod(prop.field_cls)
             called == [inst EXCEPT !.lookups[f] = @ + 1]
             element == convert_entity(RawElement(method, loc, i, called.lookups[f]),
                                       prop.field_cls)
         IN  IF loc.kind = "raised" THEN Got(loc.err, None, None, inst)
             ELSE IF method \notin Implements(inst.cls)
             THEN Got("NotImplementedError", None, Lookup(method, loc), called)
             ELSE Got("ok", element, Lookup(method, loc),
                      [called EXCEPT !.cache[f] = element])

\* getattr(instance, f) for a declared field f.
GetField(cs, inst, i, f) ==
    LET attr == ClassGetAttr(cs, inst.cls, f) IN
    IF attr.kind = "property" THEN real_getter(cs, inst, i, attr)
    ELSE IF attr = None THEN Got("ok", None, None, inst)
    ELSE Got("AttributeError", None, None, inst)

getattr_field(i, f) ==
    LET got == GetField(classes, insts[i], i, f) IN
    /\ got.inst.lookups[f] <= MaxLookups
    /\ insts' = [insts EXCEPT ![i] = got.inst]
    /\ outcome' = [Done(Call("getattr", i, f, None)) EXCEPT
                      !.err = got.err, !.value = got.value, !.lookup = got.lookup]
    /\ UNCHANGED <<WIRED_CLASS_ORDER, WIRED_CLASS_SETTERS, STRATEGIES, classes>>

Str(s) == [kind |-> "str", s |-> s]

\* The values assigned in the model.
Values == {None, Str("google")}

SetCall(method, field, value) ==
    [kind |-> "call", method |-> method, field |-> field, value |-> value]

\* A setter without the None check: None goes to the method like any value.
call_real_setter_NoneToo(setter, cs, inst, i, prop, value) ==
    LET got == real_getter(cs, inst, i, prop) IN
    IF got.err # "ok"
    THEN [err |-> got.err, lookup |-> got.lookup, set |-> None, inst |-> got.inst]
    ELSE IF setter.method = "_read_only"
    THEN [err |-> "RuntimeWarning", lookup |-> got.lookup, set |-> None, inst |-> got.inst]
    ELSE [err |-> "ok", lookup |-> got.lookup,
          set |-> SetCall(setter.method, got.value, value), inst |-> got.inst]

\* A setter whose read-only method returns instead of raising.
call_real_setter_Silent(setter, cs, inst, i, prop, value) ==
    IF value = None THEN [err |-> "ok", lookup |-> None, set |-> None, inst |-> inst]
    ELSE LET got == real_getter(cs, inst, i, prop) IN
         IF got.err # "ok"
         THEN [err |-> got.err, lookup |-> got.lookup, set |-> None, inst |-> got.inst]
         ELSE IF setter.method = "_read_only"
         THEN [err |-> "ok", lookup |-> got.lookup, set |-> None, inst |-> got.inst]
         ELSE [err |-> "ok", lookup |-> got.lookup,
               set |-> SetCall(setter.method, got.value, value), inst |-> got.inst]

\* A setter that reads the field past the cache.
call_real_setter_Uncached(setter, cs, inst, i, prop, value) ==
    IF value = None THEN [err |-> "ok", lookup |-> None, set |-> None, inst |-> inst]
    ELSE LET got == real_getter_NoCache(cs, inst, i, prop) IN
         IF got.err # "ok"
         THEN [err |-> got.err, lookup |-> got.lookup, set |-> None, inst |-> got.inst]
         ELSE IF setter.method = "_read_only"
         THEN [err |-> "RuntimeWarning", lookup |-> got.lookup, set |-> None,
               inst |-> got.inst]
         ELSE [err |-> "ok", lookup |-> got.lookup,
               set |-> SetCall(setter.method, got.value, value), inst |-> got.inst]

\* _real_setter(self, value, field_name) of the setter registered as
\* [cls, method]: what the call raises, calls and leaves of the instance.
call_real_setter(setter, cs, inst, i, prop, value) ==
    IF value = None THEN [err |-> "ok", lookup |-> None, set |-> None, inst |-> inst]
    ELSE LET got == real_getter(cs, inst, i, prop) IN
         IF got.err # "ok"
         THEN [err |-> got.err, lookup |-> got.lookup, set |-> None, inst |-> got.inst]
         ELSE IF setter.method = "_read_only"
         THEN [err |-> "RuntimeWarning", lookup |-> got.lookup, set |-> None,
               inst |-> got.inst]
         ELSE [err |-> "ok", lookup |-> got.lookup,
               set |-> SetCall(setter.method, got.value, value), inst |-> got.inst]

\* setattr(instance, f, value) for a field f the class holds a property for:
\* the property's __inner.
SetField(setters, cs, inst, i, f, value) ==
    LET prop == ClassGetAttr(cs, inst.cls, f) IN
    call_real_setter(setters[prop.setter_cls], cs, inst, i, prop, value)

IsProperty(cs, c, f) == ClassGetAttr(cs, c, f).kind = "property"

setattr_field(i, f, value) ==
    LET done == SetField(WIRED_CLASS_SETTERS, classes, insts[i], i, f, value) IN
    /\ IsProperty(classes, insts[i].cls, f)
    /\ done.inst.lookups[f] <= MaxLookups
    /\ insts' = [insts EXCEPT ![i] = done.inst]
    /\ outcome' = [Done(Call("setattr", i, f, value)) EXCEPT
                      !.err = done.err, !.lookup = done.lookup, !.set = done.set]
    /\ UNCHANGED <<WIRED_CLASS_ORDER, WIRED_CLASS_SETTERS, STRATEGIES, classes>>

(***************************************************************************)
(* The state after `import ocomone_selene.wiring`.                         *)
(***************************************************************************)
InitOrder == <<"SeleneElement", "SeleneCollection">>

InitSetters ==
    [t \in {"SeleneElement", "SeleneCollection"} |->
        IF t = "SeleneElement" THEN real_setter(t, "set") ELSE real_setter(t, "_read_only")]

Init ==
    /\ WIRED_CLASS_ORDER = InitOrder
    /\ WIRED_CLASS_SETTERS = InitSetters
    /\ STRATEGIES = DefaultStrategies
    /\ classes = [c \in WiredClasses |-> FreshClass(c)]
    /\ insts = <<>>
    /\ outcome = Done(Call("import", 0, "wiring", None))

\* `import ocomone_selene.elements`, once: the registrations of elements.py,
\* in the order of the file.
import_elements ==
    LET r1 == register_class(WIRED_CLASS_ORDER, WIRED_CLASS_SETTERS, "ReadonlyElement",
                             real_setter("ReadonlyElement", "_read_only"))
        r2 == register_class(r1.order, r1.setters, "TextInput", real_setter("TextInput", "set"))
        r3 == register_class(r2.order, r2.setters, "Checkbox", real_setter("Checkbox", "set"))
        r4 == register_class(r3.order, r3.setters, "Select",
                             real_setter("Select", "select_by_value"))
    IN  /\ ~ElementsImported
        /\ WIRED_CLASS_ORDER' = r4.order
        /\ WIRED_CLASS_SETTERS' = r4.setters
        /\ outcome' = Done(Call("import", 0, "elements", None))
        /\ UNCHANGED <<STRATEGIES, classes, insts>>

\* The types any caller registers in SpecRegistry, in any order.
RegistryTypes == Types \ {"Checkbox", "SeleniumSelect", "Button", "Select"}

\* Any type registered in any order, by any caller.
NextRegistry ==
    \/ \E cls \in RegistryTypes, method \in Methods : register_setter(cls, method)
    \/ \E cls \in RegistryTypes : register_without_setter(cls)

SpecRegistry == Init /\ [][NextRegistry]_vars

\* The strategies instances register in the model: a user's xpath strategy,
\* and label switched off.
InstanceStrategies == {<<"xpath", Fn("by_xpath")>>, <<"label", None>>}

\* Every class, instances built without a root element, every field.
Next ==
    \/ import_elements
    \/ \E c \in WiredClasses : wired(c, None)
    \/ \E i \in DOMAIN insts, s \in InstanceStrategies :
          Wireable_register_strategy(i, s[1], s[2])
    \/ \E i \in DOMAIN insts : \E f \in AllFields(insts[i].cls) : getattr_field(i, f)
    \/ \E i \in DOMAIN insts : \E f \in AllFields(insts[i].cls), value \in Values :
          setattr_field(i, f, value)

Spec == Init /\ [][Next]_vars

\* Several instances of Page, and the field located by label.
NextPages ==
    \/ import_elements
    \/ \E root \in Roots \cup {None} : wired_call("Page", root, MaxPages)
    \/ \E i \in DOMAIN insts, s \in InstanceStrategies :
          Wireable_register_strategy(i, s[1], s[2])
    \/ \E i \in DOMAIN insts : getattr_field(i, "input")
    \/ \E i \in DOMAIN insts, value \in Values : setattr_field(i, "input", value)

SpecPages == Init /\ [][NextPages]_vars

\* The strategies registered globally in the model: a new name, and a new
\* function for a name of the default set.
GlobalStrategies == {<<"xpath", Fn("by_xpath")>>, <<"id", Fn("by_name")>>}

\* The fields read in SpecStrategies: items, located by the name registered
\* globally, and submit, located by a default strategy.
StrategyFields == {"items", "submit"}

\* The global registry changed before and after a class is bound.
NextStrategies ==
    \/ import_elements
    \/ \E g \in GlobalStrategies : register_strategy(g[1], g[2])
    \/ wired("Page", None)
    \/ \E i \in DOMAIN insts, g \in InstanceStrategies :
          Wireable_register_strategy(i, g[1], g[2])
    \/ \E i \in DOMAIN insts : \E f \in StrategyFields : getattr_field(i, f)

SpecStrategies == Init /\ [][NextStrategies]_vars

(***************************************************************************)
(* The locator sources: delimited text, structured files, comments.        *)
(***************************************************************************)
MaxTokens == 5

\* The words of the texts of the model.
Words == {"css", "a", "hover"}

\* The texts of at most MaxTokens tokens.
Texts ==
    {t \in UNION {[1..n -> Words \cup {Colon}] : n \in 1..MaxTokens} : WellFormed(t)}

Text(tokens) == [kind |-> "text", tokens |-> tokens]

\* The text of a run of tokens as the value the code holds: the word itself
\* when the run is a single word.
TextOf(tokens) ==
    IF tokens = <<>> THEN "" ELSE IF Len(tokens) = 1 THEN tokens[1] ELSE Text(tokens)

\* The documents yaml.load returns in the model: a mapping with one field whose
\* value is a one-key mapping or a string.
YmlEntries ==
    {[kind |-> "map", strategy |-> st, selector |-> sel] : st \in {"id", "css"}, sel \in {"submit", "a"}}
        \cup {Text(<<st, Colon, sel>>) : st \in {"id", "css"}, sel \in {"submit", "a"}}

YmlDocs == {[kind |-> "dict", of |-> [f \in {"button"} |-> e]] : e \in YmlEntries}

\* WiredDecorator.__parse_yml on the loaded document: the comprehension
\* iterates mappings.items, the method itself, which is not iterable; None
\* has no such attribute.
parse_yml(mappings) ==
    IF mappings = None THEN Raised("AttributeError") ELSE Raised("TypeError")

\* self.__parse_csv(locator_file) on a file of one line.
load_csv(text) ==
    LET res == parse_csv(<<text>>) IN
    /\ outcome' = [Done(Call("parse_csv", 0, "", Text(text))) EXCEPT
                      !.err = IF res.kind = "raised" THEN res.err ELSE "ok",
                      !.value = IF res.kind = "raised" THEN None ELSE res]
    /\ UNCHANGED <<WIRED_CLASS_ORDER, WIRED_CLASS_SETTERS, STRATEGIES, classes, insts>>

\* self.__parse_yml(locator_file)
load_yml(doc) ==
    LET res == parse_yml(doc) IN
    /\ outcome' = [Done(Call("parse_yml", 0, "", doc)) EXCEPT
                      !.err = IF res.kind = "raised" THEN res.err ELSE "ok",
                      !.value = IF res.kind = "raised" THEN None ELSE res]
    /\ UNCHANGED <<WIRED_CLASS_ORDER, WIRED_CLASS_SETTERS, STRATEGIES, classes, insts>>

\* CommentParsingMeta.__new__ for class c, whose one annotated field is
\* followed by `# comment`: the class statement either raises or leaves the
\* class with _strategies and the field's property.
CommentParsingMeta_new(c, comment) ==
    LET field == Annotations(c)[1]
        locator == convert_locator_args(Split(comment))
        call == Call("CommentParsingMeta", 0, c, Text(comment))
        cls == [wired |-> "", strategies |-> None, private_strategies |-> STRATEGIES,
                attrs |-> [f \in OwnFields(c) |->
                              to_property(WIRED_CLASS_ORDER, f, field.cls, locator)]]
    IN  /\ c \notin DOMAIN classes
        /\ IF "kind" \in DOMAIN locator
           THEN /\ classes' = classes
                /\ outcome' = [Done(call) EXCEPT !.err = locator.err]
           ELSE /\ classes' = [x \in DOMAIN classes \cup {c} |->
                                  IF x = c THEN cls ELSE classes[x]]
                /\ outcome' = Done(call)
        /\ UNCHANGED <<WIRED_CLASS_ORDER, WIRED_CLASS_SETTERS, STRATEGIES, insts>>

\* c(): an instance of a class that no wrapper stands before.
new_instance(c) ==
    /\ c \in DOMAIN classes
    /\ Len(insts) < MaxInstances
    /\ insts' = Append(insts, NewInstance(c, None))
    /\ outcome' = [Done(Call("new", 0, c, None)) EXCEPT
                      !.value = [kind |-> "instance", id |-> Len(insts) + 1]]
    /\ UNCHANGED <<WIRED_CLASS_ORDER, WIRED_CLASS_SETTERS, STRATEGIES, classes>>

\* The state after `import ocomone_selene.comators`: no class defined yet.
InitSources ==
    /\ WIRED_CLASS_ORDER = InitOrder
    /\ WIRED_CLASS_SETTERS = InitSetters
    /\ STRATEGIES = DefaultStrategies
    /\ classes = << >>
    /\ insts = <<>>
    /\ outcome = Done(Call("import", 0, "comators", None))

\* The loaders applied to the files of the model.
NextLoaders ==
    \/ \E text \in Texts \cup {<<>>} : load_csv(text)
    \/ \E doc \in YmlDocs : load_yml(doc)

SpecLoaders == InitSources /\ [][NextLoaders]_vars

\* A class defined with the comment-parsing metaclass, its instances and reads.
NextComments ==
    \/ \E c \in CommentClasses, comment \in Texts : CommentParsingMeta_new(c, comment)
    \/ \E c \in CommentClasses : new_instance(c)
    \/ \E i \in DOMAIN insts : \E f \in AllFields(insts[i].cls) : getattr_field(i, f)

SpecComments == InitSources /\ [][NextComments]_vars

(***************************************************************************)
(* Properties.                                                             *)
(***************************************************************************)
Registered == Range(WIRED_CLASS_ORDER)

ProperSubclass(a, b) == a # b /\ is_subclass(a, b)

\* The strategies table instance i sees.
InstTable(cs, i) == ClassStrategies(cs, insts[i].cls)

\* The class attribute behind field f of instance i.
InstAttr(i, f) == ClassGetAttr(classes, insts[i].cls, f)

\* Field f of instance i is a property whose setter is (not) the read-only one.
ReadOnlyField(i, f) ==
    /\ InstAttr(i, f).kind = "property"
    /\ WIRED_CLASS_SETTERS[InstAttr(i, f).setter_cls].method = "_read_only"

WritableField(i, f) ==
    /\ InstAttr(i, f).kind = "property"
    /\ WIRED_CLASS_SETTERS[InstAttr(i, f).setter_cls].method # "_read_only"

Undefined(table, name) == name \notin DOMAIN table \/ table[name] = None

\* C1: whatever the order of the registrations, a field declared as a
\* registered type B that has a registered proper supertype A is compiled with
\* the setter registered for B, never with A's.
C1_SetterBySpecificity ==
    \A a \in Registered, b \in Registered :
        ProperSubclass(b, a) =>
            LET prop == to_property(WIRED_CLASS_ORDER, "field", b, Line("css", "x")) IN
            /\ prop # None
            /\ prop.setter_cls = b
            /\ WIRED_CLASS_SETTERS[prop.setter_cls].cls = b

\* C1 witness: the type with two bases, both bases and their common base are
\* registered, and fields of the three subtypes resolve to their own setters.
C1_Witness ==
    /\ {"ReadonlyInput", "ReadonlyElement", "TextInput", "SeleneElementWrapper"}
          \subseteq Registered
    /\ SetterClass(WIRED_CLASS_ORDER, "ReadonlyInput") = "ReadonlyInput"
    /\ SetterClass(WIRED_CLASS_ORDER, "TextInput") = "TextInput"

\* C2: in the ordered registry every type stands before each of its proper
\* supertypes, adjacent or not, and no type stands twice.
C2_SubtypesFirst ==
    \A i \in DOMAIN WIRED_CLASS_ORDER, j \in DOMAIN WIRED_CLASS_ORDER :
        i < j => /\ WIRED_CLASS_ORDER[i] # WIRED_CLASS_ORDER[j]
                 /\ ~is_subclass(WIRED_CLASS_ORDER[j], WIRED_CLASS_ORDER[i])

\* C2 witness: every type is registered and a type stands before a proper
\* supertype that is not its neighbour.
C2_Witness ==
    /\ Registered = RegistryTypes
    /\ \E i \in DOMAIN WIRED_CLASS_ORDER, j \in DOMAIN WIRED_CLASS_ORDER :
          /\ j > i + 1
          /\ ProperSubclass(WIRED_CLASS_ORDER[i], WIRED_CLASS_ORDER[j])
          /\ WIRED_CLASS_ORDER[i] = "ReadonlyInput"

\* C3 as stated: after any read of a bound field the owner's lookup has been
\* called exactly once for it.
C3_LookupExactlyOnce ==
    outcome.call.op = "getattr" =>
        LET i == outcome.call.inst
            f == outcome.call.name
        IN  InstAttr(i, f).kind = "property" => insts[i].lookups[f] = 1

\* C3 amended: a read touches only its own instance; a read of a cached field
\* returns the cached object and calls no lookup; a read of an uncached field
\* that completes has called the lookup method once with the resolved locator
\* and caches what it returns; a read that raises caches nothing.
C3_CachedGetter ==
    [][outcome'.call.op = "getattr" =>
        LET i == outcome'.call.inst
            f == outcome'.call.name
            prop == InstAttr(i, f)
        IN  prop.kind = "property" =>
            /\ \A j \in DOMAIN insts : j # i => insts'[j] = insts[j]
            /\ IF insts[i].cache[f] # None
               THEN /\ insts'[i] = insts[i]
                    /\ outcome'.err = "ok"
                    /\ outcome'.value = insts[i].cache[f]
                    /\ outcome'.lookup = None
               ELSE IF outcome'.err = "ok"
               THEN /\ insts'[i].lookups[f] = insts[i].lookups[f] + 1
                    /\ outcome'.lookup =
                          Lookup(LookupMethod(prop.field_cls),
                                 convert_locator(InstTable(classes, i),
                                                 prop.line.strategy, prop.line.selector))
                    /\ outcome'.value.owner = i
                    /\ outcome'.value.loc = outcome'.lookup.loc
                    /\ insts'[i].cache[f] = outcome'.value
               ELSE /\ insts'[i].cache[f] = None
                    /\ outcome'.value = None]_vars

\* C3 witness: two instances whose field is cached, each by its own lookup, and
\* the last read returned the cached object without a lookup.
C3_Witness ==
    /\ Len(insts) = 2
    /\ \A i \in DOMAIN insts :
          /\ insts[i].cache["input"] # None
          /\ insts[i].cache["input"].owner = i
          /\ insts[i].lookups["input"] = 1
    /\ outcome.call.op = "getattr"
    /\ outcome.lookup = None
    /\ outcome.value = insts[outcome.call.inst].cache["input"]

\* C4: a call of the wrapper for a class that is already bound leaves the
\* class as it was: its properties and its strategy table.
C4_RebindingChangesNothing ==
    [][\A c \in WiredClasses :
          (AlreadyWired(classes, c) /\ outcome'.call.op = "wired" /\ outcome'.call.name = c)
              => classes'[c] = classes[c]]_vars

\* C5: Wireable.register_strategy on one instance leaves what every other
\* instance resolves the name to as it was.
C5_StrategyOnlyForCaller ==
    [][outcome'.call.op = "Wireable.register_strategy" =>
          \A j \in DOMAIN insts :
              j # outcome'.call.inst =>
                  StrategyDict_getitem(InstTable(classes', j), outcome'.call.name)
                      = StrategyDict_getitem(InstTable(classes, j), outcome'.call.name)]_vars

\* C6: the label strategy every instance sees searches from that instance's
\* own root element.
C6_LabelFromOwnRoot ==
    \A i \in DOMAIN insts :
        LET label == StrategyDict_getitem(InstTable(classes, i), "label") IN
        label # None => label = by_label(insts[i].root)

\* C7: assigning None to a writable field raises nothing, calls neither the
\* assignment function nor a lookup, and leaves every instance (its cache
\* included) and every class as it was.
C7_AssignNoneNoOp ==
    [][(/\ outcome'.call.op = "setattr"
        /\ outcome'.call.arg = None
        /\ WritableField(outcome'.call.inst, outcome'.call.name))
          => /\ insts' = insts
             /\ classes' = classes
             /\ outcome'.err = "ok"
             /\ outcome'.set = None
             /\ outcome'.lookup = None]_vars

\* C7 witness: None was assigned to the writable field input while its cache
\* was empty, and it is still empty.
C7_Witness ==
    /\ outcome.call.op = "setattr"
    /\ outcome.call.arg = None
    /\ outcome.call.name = "input"
    /\ WritableField(outcome.call.inst, "input")
    /\ insts[outcome.call.inst].cache["input"] = None
    /\ insts[outcome.call.inst].lookups["input"] = 0
    /\ outcome.err = "ok"

\* C8 as stated: every assignment to a field with the read-only setter raises
\* the read-only error.
C8_ReadOnlyAlwaysRaises ==
    (outcome.call.op = "setattr" /\ ReadOnlyField(outcome.call.inst, outcome.call.name))
        => outcome.err = "RuntimeWarning"

\* C8 amended: an assignment to a field with the read-only setter never calls
\* an assignment function; of a value other than None it raises, the read-only
\* error exactly when the field's element was obtained and the getter's error
\* otherwise; of None it does nothing.
C8_ReadOnlyAssign ==
    (outcome.call.op = "setattr" /\ ReadOnlyField(outcome.call.inst, outcome.call.name))
        => LET i == outcome.call.inst
               f == outcome.call.name
           IN  /\ outcome.set = None
               /\ outcome.call.arg = None => outcome.err = "ok" /\ outcome.lookup = None
               /\ outcome.call.arg # None =>
                     /\ outcome.err # "ok"
                     /\ outcome.err = "RuntimeWarning" <=> insts[i].cache[f] # None

\* C8 witness: a value was assigned to submit, declared as Button and resolved
\* to ReadonlyElement's setter, and the read-only error was raised.
C8_Witness ==
    /\ outcome.call.op = "setattr"
    /\ outcome.call.name = "submit"
    /\ outcome.call.arg # None
    /\ InstAttr(outcome.call.inst, "submit").field_cls = "Button"
    /\ InstAttr(outcome.call.inst, "submit").setter_cls = "ReadonlyElement"
    /\ outcome.err = "RuntimeWarning"

\* C9: a class is bound only with every declared field installed as a property.
C9_BoundFieldsAreProperties ==
    \A c \in WiredClasses :
        classes[c].wired = c =>
            \A f \in OwnFields(c) : classes[c].attrs[f].kind = "property"

\* C10: a read, or an assignment of a value, of a field whose element is not
\* cached and whose strategy name is missing from the instance's table or
\* bound to None raises the undefined-strategy error: no locator is made, no
\* lookup called, nothing returned.
C10_UndefinedStrategyRaises ==
    (outcome.call.op \in {"getattr", "setattr"}) =>
        LET i == outcome.call.inst
            f == outcome.call.name
        IN  (/\ InstAttr(i, f).kind = "property"
             /\ outcome.call.op = "setattr" => outcome.call.arg # None
             /\ insts[i].cache[f] = None
             /\ Undefined(InstTable(classes, i), InstAttr(i, f).line.strategy))
              => /\ outcome.err = "NotImplementedError"
                 /\ outcome.lookup = None
                 /\ outcome.value = None
                 /\ outcome.set = None

\* C10 witness: the class is bound with a field located by xpath, a name the
\* table does not hold, and reading the field raised.
C10_Witness ==
    /\ outcome.call.op = "getattr"
    /\ outcome.call.name = "items"
    /\ classes["Page"].wired = "Page"
    /\ InstAttr(outcome.call.inst, "items").line.strategy = "xpath"
    /\ "xpath" \notin DOMAIN InstTable(classes, outcome.call.inst)
    /\ outcome.err = "NotImplementedError"
    /\ outcome.lookup = None

\* Class c declares an annotated field, never assigned, that its locator source
\* has no entry for.
MissesMapping(c) ==
    \E f \in OwnFields(c) :
        f \notin DOMAIN Locators(c) /\ ClassGetAttr(classes, c, f) = Unset

\* C11: a class with a declared, unassigned field that its locator source has
\* no entry for is never marked as bound and never has an instance; every call
\* of the wrapper for it raises the missing-mapping error and returns nothing.
C11_NoInstanceWithoutMapping ==
    \A c \in WiredClasses :
        MissesMapping(c) =>
            /\ classes[c].wired = ""
            /\ \A i \in DOMAIN insts : insts[i].cls # c
            /\ (outcome.call.op = "wired" /\ outcome.call.name = c)
                  => outcome.err = "KeyError" /\ outcome.value = None

\* C11 witness: the wrapper was called for Broken, whose field extra has no
\* locator line; the call installed the field title and then raised, and the
\* only instance is one of another class.
C11_Witness ==
    /\ MissesMapping("Broken")
    /\ outcome.call.op = "wired"
    /\ outcome.call.name = "Broken"
    /\ outcome.err = "KeyError"
    /\ classes["Broken"].attrs["title"].kind = "property"
    /\ Len(insts) = 1
    /\ insts[1].cls = "Page"

\* C12: a class that is not marked as bound is as its definition left it: no
\* strategy table, no declared field installed.
C12_AllOrNothing ==
    \A c \in WiredClasses : classes[c].wired = "" => classes[c] = FreshClass(c)

\* C20: registering a type that is already in the registry changes nothing:
\* the ordered list and every stored setter, the one of that type included,
\* stay as they were, whichever function the call passes.
C20_FirstRegistrationWins ==
    [][(/\ outcome'.call.op \in {"register_setter", "register_without_setter"}
        /\ outcome'.call.name \in Registered)
          => /\ WIRED_CLASS_ORDER' = WIRED_CLASS_ORDER
             /\ WIRED_CLASS_SETTERS' = WIRED_CLASS_SETTERS]_vars

\* C20 witness: register_without_setter was called for TextInput, registered
\* before with the function set, and TextInput's setter is still set; the
\* default read-only SeleneCollection was not made writable either.
C20_Witness ==
    /\ outcome.call.op = "register_without_setter"
    /\ outcome.call.name = "TextInput"
    /\ WIRED_CLASS_SETTERS["TextInput"] = real_setter("TextInput", "set")
    /\ WIRED_CLASS_SETTERS["SeleneCollection"] = real_setter("SeleneCollection", "_read_only")
    /\ Len(WIRED_CLASS_ORDER) > 3

Row(c, f) ==
    LET k == CHOOSE k \in DOMAIN CsvFile(c) : csv_reader(CsvFile(c)[k])[1] = f
    IN  csv_reader(CsvFile(c)[k])

\* C18 as stated: the locator a bound field is looked up with has the line's
\* second token as its strategy and the line's third token as its selector.
C18_LocatorEqualsTokens ==
    (outcome.call.op = "getattr" /\ outcome.lookup # None) =>
        LET row == Row(insts[outcome.call.inst].cls, outcome.call.name) IN
        /\ outcome.lookup.loc.by = row[2]
        /\ outcome.lookup.loc.sel = row[3]
        /\ outcome.lookup.loc.form = "raw"

\* C18 amended: the binding keeps the line's second token as the strategy name
\* and its third token as the selector text; the locator the field is looked
\* up with is what the function found under that name in the instance's table
\* returns for that text: the function's own tag, and the text as is, wrapped
\* in an expression, or replaced by the id the label points to.
C18_LocatorFromStrategy ==
    (outcome.call.op = "getattr" /\ InstAttr(outcome.call.inst, outcome.call.name).kind = "property")
      => LET i == outcome.call.inst
             row == Row(insts[i].cls, outcome.call.name)
             prop == InstAttr(i, outcome.call.name)
             loc == outcome.lookup.loc
         IN  /\ Len(row) = 3
             /\ prop.line.strategy = row[2]
             /\ prop.line.selector = row[3]
             /\ outcome.lookup # None =>
                  LET fn == InstTable(classes, i)[row[2]].fn IN
                  CASE fn = "by_id"           -> loc = Locator("id", row[3], "raw")
                    [] fn = "by_name"         -> loc = Locator("name", row[3], "raw")
                    [] fn = "by_css"          -> loc = Locator("css selector", row[3], "raw")
                    [] fn = "by_link_text"    -> loc = Locator("link text", row[3], "raw")
                    [] fn = "by_xpath"        -> loc = Locator("xpath", row[3], "raw")
                    [] fn = "by_text"         -> loc = Locator("xpath", row[3], "text_equals")
                    [] fn = "by_partial_text" -> loc = Locator("xpath", row[3], "text_contains")
                    [] fn = "by_label"        ->
                         /\ loc.by = "id"
                         /\ loc.form = "raw"
                         /\ loc.sel = LabelTarget(InstTable(classes, i)[row[2]].root, row[3]).s

\* C18 witness: the field submit, bound from the line submit:css:button, was
\* read and looked up with the locator (css selector, button).
C18_Witness ==
    /\ outcome.call.op = "getattr"
    /\ outcome.call.name = "submit"
    /\ Row("Page", "submit") = <<"submit", "css", "button">>
    /\ outcome.lookup # None
    /\ outcome.lookup.loc = Locator("css selector", "button", "raw")

\* C13: register_strategy(name, fn) of the module returns with fn stored under
\* name in the global registry and every other entry as it was.
C13_RegisterStoresStrategy ==
    [][outcome'.call.op = "register_strategy" =>
          /\ outcome'.err = "ok"
          /\ STRATEGIES' = DictUpdate(STRATEGIES, outcome'.call.name, outcome'.call.arg)]_vars

\* The locator field f of instance i resolves to with the tables of cs.
Resolved(cs, i, f) ==
    LET prop == ClassGetAttr(cs, insts[i].cls, f) IN
    convert_locator(ClassStrategies(cs, insts[i].cls), prop.line.strategy, prop.line.selector)

\* C14: the table a class gets when it is bound holds the global registry's
\* entries of that moment; a call that changes the global registry afterwards
\* leaves the table of every bound class, and the locator every field of every
\* instance resolves to, as they were; a call that binds a class or registers
\* a strategy on an instance leaves the global registry as it was.
C14_Snapshot ==
    [][/\ outcome'.call.op = "register_strategy" =>
            /\ \A c \in WiredClasses :
                  AlreadyWired(classes, c) =>
                      ClassStrategies(classes, c)' = ClassStrategies(classes, c)
            /\ \A i \in DOMAIN insts : \A f \in AllFields(insts[i].cls) :
                  InstAttr(i, f).kind = "property" =>
                      Resolved(classes, i, f)' = Resolved(classes, i, f)
       /\ outcome'.call.op \in {"wired", "Wireable.register_strategy"} =>
            STRATEGIES' = STRATEGIES
       /\ \A c \in WiredClasses :
            (/\ outcome'.call.op = "wired"
             /\ outcome'.call.name = c
             /\ outcome'.err = "ok"
             /\ ~AlreadyWired(classes, c))
              => /\ DOMAIN ClassStrategies(classes, c)' = DOMAIN STRATEGIES \cup {"label"}
                 /\ \A n \in DOMAIN STRATEGIES :
                       n # "label" => ClassStrategies(classes, c)'[n] = STRATEGIES[n]]_vars

\* C14 witness: Page was bound, and a later call of the module's
\* register_strategy left an entry in the global registry that Page's table
\* does not hold; an instance of Page exists.
C14_Witness ==
    /\ AlreadyWired(classes, "Page")
    /\ outcome.call.op = "register_strategy"
    /\ DOMAIN STRATEGIES # DOMAIN DefaultStrategies
    /\ DOMAIN ClassStrategies(classes, "Page") = DOMAIN DefaultStrategies
    /\ Len(insts) = 1

\* The strategy and the selector a structured entry names.
EntryLine(entry) ==
    IF entry.kind = "map" THEN Line(entry.strategy, entry.selector)
    ELSE Line(entry.tokens[1], entry.tokens[3])

\* C15: the structured loader returns, for an entry of either shape, the
\* locator the delimited line field:strategy:selector gives for the field.
C15_YmlShapesNormalize ==
    outcome.call.op = "parse_yml" =>
        /\ outcome.err = "ok"
        /\ \A f \in DOMAIN outcome.call.arg.of :
              LET line == EntryLine(outcome.call.arg.of[f]) IN
              outcome.value.of[f]
                  = parse_csv(<< <<f, Colon, line.strategy, Colon, line.selector>> >>).of[f]

\* C16: a read of a field of an instance of a comment-parsed class, whose
\* comment names a strategy defined in the class's snapshot, succeeds: the
\* instance's lookup was called once, with the locator the snapshot's strategy
\* gives for the selector, and its result is cached.
C16_CommentFieldReadable ==
    (outcome.call.op = "getattr" /\ insts[outcome.call.inst].cls \in CommentClasses) =>
        LET i == outcome.call.inst
            f == outcome.call.name
            prop == InstAttr(i, f)
            snapshot == classes[insts[i].cls].private_strategies
        IN  (/\ prop.kind = "property"
             /\ ~Undefined(snapshot, prop.line.strategy)
             /\ CallStrategy(snapshot[prop.line.strategy], prop.line.selector).kind = "locator")
              => /\ outcome.err = "ok"
                 /\ insts[i].lookups[f] = 1
                 /\ insts[i].cache[f] # None
                 /\ insts[i].cache[f].loc
                       = CallStrategy(snapshot[prop.line.strategy], prop.line.selector)

\* C17: a class whose comment holds a colon is created with the field's
\* strategy being the text before the first colon and its selector the whole
\* text after it, further colons included.
C17_SplitAtFirstColon ==
    (outcome.call.op = "CommentParsingMeta" /\ FirstColon(outcome.call.arg.tokens) > 0) =>
        LET comment == outcome.call.arg.tokens
            k == FirstColon(comment)
            c == outcome.call.name
        IN  /\ outcome.err = "ok"
            /\ c \in DOMAIN classes
            /\ \A f \in OwnFields(c) :
                  /\ classes[c].attrs[f].line.strategy = TextOf(SubSeq(comment, 1, k - 1))
                  /\ classes[c].attrs[f].line.selector
                        = TextOf(SubSeq(comment, k + 1, Len(comment)))

\* C21: a read or an assignment that looks a bound field up calls one lookup
\* method of the owning instance, once: elements when the field's declared
\* type is iterable, element when it is not.
C21_LookupByDeclaredType ==
    [][(outcome'.call.op \in {"getattr", "setattr"} /\ outcome'.lookup # None) =>
        LET i == outcome'.call.inst
            f == outcome'.call.name
            prop == InstAttr(i, f)
        IN  /\ prop.kind = "property"
            /\ outcome'.lookup.method \in {"element", "elements"}
            /\ outcome'.lookup.method = "elements" <=> IsIterable(prop.field_cls)
            /\ insts'[i].lookups[f] = insts[i].lookups[f] + 1
            /\ \A g \in AllFields(insts[i].cls) \ {f} :
                  insts'[i].lookups[g] = insts[i].lookups[g]]_vars

\* C21 witness: the field items, declared as a collection, was read and looked
\* up with elements, on an instance whose field submit, declared as a Button,
\* had been looked up with element and is cached.
C21_Witness ==
    /\ outcome.call.op = "getattr"
    /\ outcome.call.name = "items"
    /\ InstAttr(outcome.call.inst, "items").field_cls = "SeleneCollection"
    /\ outcome.lookup # None
    /\ outcome.lookup.method = "elements"
    /\ insts[outcome.call.inst].cache["submit"] # None
    /\ insts[outcome.call.inst].cache["submit"].cls = "Button"
    /\ insts[outcome.call.inst].lookups["submit"] = 1

=============================================================================
